---- MODULE Spec2Model ----
(***************************************************************************)
(* Model of synet/synthesis/ospf.py: the OSPFSyn synthesizer.              *)
(*                                                                         *)
(* The state is the OSPFSyn object after __init__: the filtered network    *)
(* graph (networkx 1.x DiGraph: a node dict and an adjacency dict), the    *)
(* list of requirements, and the Z3 solver (a stack of assertion scopes,   *)
(* the result of the last check and the model it produced).                *)
(*                                                                         *)
(* Z3 integers are unbounded; the models enumerated here take costs in     *)
(* 0..MaxCost, so "sat" here implies sat in Z3, while "unsat" means no     *)
(* model within the bound.  Callers follow the order register, push,       *)
(* solve, read: they solve only after a push_requirements call that        *)
(* returned normally and covered every registered requirement.             *)
(***************************************************************************)
EXTENDS Integers, Sequences, FiniteSets, TLC

VARIABLES
    node,             \* keys of network_graph.node   (what g.nodes() lists)
    adj,              \* edges of network_graph.adj   (what has_edge / g[u] see)
    attr,             \* 'cost' attribute of the edges that carry one
    initial_configs,  \* the list of SetOSPFEdgeCost given to __init__
    reqs,             \* self.reqs
    scopes,           \* solver assertion stack; scopes[1] is the base scope
    result,           \* "none" | "sat" | "unsat": last solver.check()
    model,            \* the model of the last satisfiable check
    pushed,           \* Len(self.reqs) when push_requirements last ran
    err,              \* exception raised by the last push_requirements
    errAt,            \* index of the requirement it was raised on
    graphs            \* value last returned by get_output_routing_graphs

vars == <<node, adj, attr, initial_configs, reqs, scopes, result, model,
          pushed, err, errAt, graphs>>

----------------------------------------------------------------------------
(* Bounds of the model.                                                    *)

MaxCost == 1        \* solver models take edge costs in 0..MaxCost
MaxReqs == 2        \* at most this many add_path_req calls
MaxPush == 2        \* at most this many push_requirements calls
MaxConfigs == 1     \* at most this many SetOSPFEdgeCost in initial_configs

----------------------------------------------------------------------------
(* Inputs.                                                                 *)

Routers == {"A", "B", "C"}       \* nodes tagged VERTEX_TYPE = NODE_TYPE
Networks == {"N"}                \* nodes tagged as a destination network
Names == Routers \cup Networks
Pairs == Names \X Names

NODE_TYPE == "NODE"
VertexType(n) == IF n \in Routers THEN NODE_TYPE ELSE "NETWORK"

\* Raw input graphs (edge sets over Names), all nodes carry a type tag.
RawGraphs ==
    { {<<"A","B">>, <<"B","C">>},
      {<<"A","B">>, <<"B","C">>, <<"A","C">>},
      {<<"A","C">>, <<"A","N">>, <<"N","C">>},
      {<<"A","C">>, <<"A","N">>, <<"N","B">>, <<"B","C">>} }

FixedCosts == {0, 1}             \* values a SetOSPFEdgeCost may carry

\* Paths a caller may register.
ReqPaths ==
    { <<"A">>, <<"A","C">>, <<"A","B","C">>, <<"C","A">>,
      <<"A","N","C">>, <<"A","N","B","C">> }

NoModel == [edge |-> <<>>, cost |-> <<>>]
NoGraphs == <<>>

----------------------------------------------------------------------------
(* Solver terms and assertions.                                            *)
(* A path cost is a Python int plus a sum of applications of the Z3        *)
(* function OSPFEdgeCost: lit + cost(p1) + ... + cost(pk).                 *)

Lit(c) == [lit |-> c, syms |-> <<>>]
Sym(p) == [lit |-> 0, syms |-> <<p>>]
Plus(s, t) == [lit |-> s.lit + t.lit, syms |-> s.syms \o t.syms]
ZeroTerm == Lit(0)

EdgeA(p) == [k |-> "edge", p |-> p, c |-> 0, l |-> ZeroTerm, r |-> ZeroTerm]
NotEdgeA(p) == [k |-> "notedge", p |-> p, c |-> 0, l |-> ZeroTerm, r |-> ZeroTerm]
CostEqA(p, c) == [k |-> "costeq", p |-> p, c |-> c, l |-> ZeroTerm, r |-> ZeroTerm]
CostGeA(p) == [k |-> "costge0", p |-> p, c |-> 0, l |-> ZeroTerm, r |-> ZeroTerm]
LtA(l, r) == [k |-> "lt", p |-> <<"", "">>, c |-> 0, l |-> l, r |-> r]

----------------------------------------------------------------------------
(* Vertex registry (SynthesisComponent._create_vertices, get_vertex):      *)
(* every named element, router or destination network, has one vertex.    *)

name_to_vertex == Names
network_names == Networks
networks == Networks

----------------------------------------------------------------------------
(* __init__ : _load_graph                                                  *)

\* Nodes whose tag is not NODE_TYPE are deleted from the node dict g.node.
load_graph_node(rawNodes) == {n \in rawNodes : VertexType(n) = NODE_TYPE}

\* `del g.node[node]` removes the key from the node dict only: networkx 1.x
\* keeps the adjacency in g.adj (= g.edge = g.succ), which is left as copied.
load_graph_adj(rawEdges) == rawEdges

(* __init__ : _read_input_graph, first loop: annotate the graph with the   *)
(* given costs, in list order (a later entry overwrites an earlier one).   *)
RECURSIVE annotate(_, _)
annotate(cfgs, a) ==
    IF cfgs = <<>> THEN a
    ELSE LET t == Head(cfgs)
             e == <<t.src, t.dst>>
         IN annotate(Tail(cfgs),
                     [p \in (DOMAIN a) \cup {e} |-> IF p = e THEN t.cost ELSE a[p]])

\* network_graph.edge[src][dst].get('cost', None)
HasCost(a, e) == e \in DOMAIN a

\* Python truthiness of `cost` in `if cost:` -- None and 0 are both false.
Truthy(a, e) == HasCost(a, e) /\ a[e] # 0

\* Variant of PairAssertions that leaves absent links unconstrained.
PairAssertionsNoNot(nd, ad, a, src, dst) ==
    LET e == <<src, dst>> IN
    IF e \in ad
    THEN {EdgeA(e)} \cup (IF Truthy(a, e) THEN {CostEqA(e, a[e])} ELSE {CostGeA(e)})
    ELSE {}

(* __init__ : _read_input_graph, second loop: the assertions added to the  *)
(* solver for every ordered pair of listed nodes outside network_names.   *)
PairAssertions(nd, ad, a, src, dst) ==
    LET e == <<src, dst>> IN
    IF e \in ad
    THEN {EdgeA(e)} \cup (IF Truthy(a, e) THEN {CostEqA(e, a[e])} ELSE {CostGeA(e)})
    ELSE {NotEdgeA(e)}

read_input_graph(nd, ad, a) ==
    UNION { PairAssertions(nd, ad, a, src, dst) :
              src \in nd \ network_names, dst \in nd \ network_names }

Baseline == read_input_graph(node, adj, attr)

\* The lists of SetOSPFEdgeCost __init__ accepts for a raw graph: an entry
\* for a pair that is no edge raises KeyError and no object is built.
RECURSIVE ConfigSeqs(_, _)
ConfigSeqs(g, n) ==
    IF n = 0 THEN {<<>>}
    ELSE LET shorter == ConfigSeqs(g, n - 1)
         IN shorter \cup
            { Append(s, [src |-> e[1], dst |-> e[2], cost |-> c]) :
                s \in {t \in shorter : Len(t) = n - 1}, e \in g, c \in FixedCosts }

Init ==
    \E g \in RawGraphs :
      \E cfgs \in ConfigSeqs(g, MaxConfigs) :
        /\ node = load_graph_node(Names)
        /\ adj = load_graph_adj(g)
        /\ attr = annotate(cfgs, <<>>)
        /\ initial_configs = cfgs
        /\ reqs = <<>>
        /\ scopes = <<read_input_graph(load_graph_node(Names), load_graph_adj(g),
                                       annotate(cfgs, <<>>))>>
        /\ result = "none"
        /\ model = NoModel
        /\ pushed = 0
        /\ err = "none"
        /\ errAt = 0
        /\ graphs = NoGraphs

----------------------------------------------------------------------------
(* add_path_req                                                            *)

\* `assert isinstance(req, PathReq)` is the only check; then the append.
add_path_req(path) ==
    /\ Len(reqs) < MaxReqs
    /\ result = "none"        \* callers register requirements before solving
    /\ reqs' = Append(reqs, path)
    /\ UNCHANGED <<node, adj, attr, initial_configs, scopes, result, model,
                   pushed, err, errAt, graphs>>

----------------------------------------------------------------------------
(* _get_edge_cost, _get_path_cost                                          *)

\* Variant of EdgeLookupRaises in which a missing edge is looked up with a
\* default instead of raising.
EdgeLookupNeverRaises(src, dst) == FALSE

\* self.network_graph[src][dst] raises KeyError when dst is not in the
\* adjacency of src (or src has no adjacency at all).
EdgeLookupRaises(src, dst) == <<src, dst>> \notin adj

\* cost = ....get('cost', 0); a cost > 0 is returned as a Python int,
\* anything else gives the application edge_cost(src_v, dst_v).
get_edge_cost(src, dst) ==
    LET e == <<src, dst>>
        cost == IF HasCost(attr, e) THEN attr[e] ELSE 0
    IN IF cost > 0 THEN Lit(cost) ELSE Sym(e)

RECURSIVE SumFrom(_, _)
SumFrom(path, i) ==
    IF i >= Len(path) THEN ZeroTerm
    ELSE Plus(get_edge_cost(path[i], path[i + 1]), SumFrom(path, i + 1))

get_path_cost(path) == SumFrom(path, 1)

\* Variant of PathCostRaises that only looks up the first pair of the path.
PathCostRaisesFirstPair(path) ==
    Len(path) >= 2 /\ EdgeLookupRaises(path[1], path[2])

PathCostRaises(path) ==
    \E i \in 1..(Len(path) - 1) : EdgeLookupRaises(path[i], path[i + 1])

----------------------------------------------------------------------------
(* nx.all_simple_paths(self.network_graph, src, dst), networkx 1.x.        *)

\* `source not in G` / `target not in G` test the node dict.
SimplePathsRaises(src, dst) == src \notin node \/ dst \notin node

\* cutoff defaults to len(G) - 1, and len(G) counts the node dict.
Cutoff == Cardinality(node) - 1

\* The depth-first search follows G[child] (the adjacency): it yields every
\* visited + [target] with at most Cutoff edges, visited being distinct nodes
\* none of which, after the source, is the target.
IsSimplePath(p, src, dst) ==
    /\ p[1] = src
    /\ p[Len(p)] = dst
    /\ \A i \in 1..(Len(p) - 1) : <<p[i], p[i + 1]>> \in adj
    /\ \A i, j \in 1..(Len(p) - 1) : i # j => p[i] # p[j]
    /\ \A i \in 2..(Len(p) - 1) : p[i] # dst

all_simple_paths(src, dst) ==
    IF Cutoff < 1 THEN {}
    ELSE { p \in UNION { [1..n -> Names] : n \in 2..(Cutoff + 1) } :
             IsSimplePath(p, src, dst) }

----------------------------------------------------------------------------
(* push_requirements                                                       *)

\* The exception the loop body raises on one requirement, if any:
\* path[0] on an empty path, the edge lookup in _get_path_cost(path), then
\* the node checks of all_simple_paths.
ReqError(path) ==
    IF Len(path) = 0 THEN "IndexError"
    ELSE IF PathCostRaises(path) THEN "KeyError"
    ELSE IF SimplePathsRaises(path[1], path[Len(path)]) THEN "NetworkXError"
    ELSE "none"

\* The assertions the loop body adds for one requirement.
ReqAssertions(path) ==
    { LtA(get_path_cost(path), get_path_cost(sp)) :
        sp \in { q \in all_simple_paths(path[1], path[Len(path)]) : path # q } }

\* Index of the first requirement that raises, Len(reqs) + 1 if none does.
FirstError(rs) ==
    LET bad == { i \in 1..Len(rs) : ReqError(rs[i]) # "none" }
    IN IF bad = {} THEN Len(rs) + 1
       ELSE CHOOSE i \in bad : \A j \in bad : i <= j

\* Variant of SolverPush that opens no scope.
SolverPushNoScope(st) == st

\* solver.push() opens a new scope; the assertions go to the top scope.
SolverPush(st) == Append(st, {})
SolverAdd(st, as) == [st EXCEPT ![Len(st)] = @ \cup as]

push_requirements ==
    /\ Len(scopes) - 1 < MaxPush
    /\ LET stop == FirstError(reqs)
           added == UNION { ReqAssertions(reqs[i]) : i \in 1..(stop - 1) }
       IN /\ scopes' = SolverAdd(SolverPush(scopes), added)
          /\ err' = IF stop > Len(reqs) THEN "none" ELSE ReqError(reqs[stop])
          /\ errAt' = IF stop > Len(reqs) THEN 0 ELSE stop
    /\ pushed' = Len(reqs)
    /\ result' = "none"
    /\ model' = NoModel
    /\ graphs' = NoGraphs
    /\ UNCHANGED <<node, adj, attr, initial_configs, reqs>>

----------------------------------------------------------------------------
(* The solver: satisfiability of the asserted formulas, and its models.    *)

Assertions(st) == UNION { st[i] : i \in DOMAIN st }

CostDom == 0..MaxCost

RECURSIVE SumCosts(_, _, _)
SumCosts(m, syms, i) ==
    IF i > Len(syms) THEN 0 ELSE m.cost[syms[i]] + SumCosts(m, syms, i + 1)

Eval(t, m) == t.lit + SumCosts(m, t.syms, 1)

Holds(a, m) ==
    CASE a.k = "edge"    -> m.edge[a.p]
      [] a.k = "notedge" -> ~m.edge[a.p]
      [] a.k = "costeq"  -> m.cost[a.p] = a.c
      [] a.k = "costge0" -> m.cost[a.p] >= 0
      [] a.k = "lt"      -> Eval(a.l, m) < Eval(a.r, m)

\* Applications of OSPFEdgeCost that occur in the assertions.
CostApps(as) ==
    { a.p : a \in { b \in as : b.k \in {"costeq", "costge0"} } }
    \cup UNION { { a.l.syms[i] : i \in DOMAIN a.l.syms }
                 \cup { a.r.syms[i] : i \in DOMAIN a.r.syms } :
                 a \in { b \in as : b.k = "lt" } }

\* A model interprets EdgePhyOSPF and OSPFEdgeCost by a table over the
\* applications that occur in the assertions and one `else` value for all
\* other arguments; the solver may return any such interpretation that
\* satisfies every assertion.
CandidateModels(as) ==
    LET apps == CostApps(as)
        fixed == { a.p : a \in { b \in as : b.k = "costeq" } }
        val(p) == (CHOOSE a \in as : a.k = "costeq" /\ a.p = p).c
    IN { [edge |-> [p \in Pairs |-> IF EdgeA(p) \in as THEN TRUE
                                    ELSE IF NotEdgeA(p) \in as THEN FALSE
                                    ELSE ee],
          cost |-> [p \in Pairs |-> IF p \in fixed THEN val(p)
                                    ELSE IF p \in apps THEN tbl[p]
                                    ELSE ce]] :
           tbl \in [apps \ fixed -> CostDom], ce \in CostDom, ee \in BOOLEAN }

SatModels(as) == { m \in CandidateModels(as) : \A a \in as : Holds(a, m) }

\* solver.check() followed by solver.model().  A caller solves once the
\* requirements it registered have been pushed without an exception.
solver_check ==
    /\ result = "none"
    /\ err = "none"
    /\ pushed = Len(reqs)
    /\ LET ms == SatModels(Assertions(scopes))
       IN \/ /\ ms = {}
             /\ result' = "unsat"
             /\ model' = NoModel
          \/ \E m \in ms :
               /\ result' = "sat"
               /\ model' = m
    /\ graphs' = NoGraphs
    /\ UNCHANGED <<node, adj, attr, initial_configs, reqs, scopes, pushed,
                   err, errAt>>

----------------------------------------------------------------------------
(* get_output_configs, get_output_network_graph                            *)

\* check(self.edge(src_v, dst_v)) over every ordered pair of vertices
PresentPairs(m) == { p \in name_to_vertex \X name_to_vertex : m.edge[p] }

\* the SetOSPFEdgeCost(src, dst, cost) list, as a set of triples
get_output_configs(m) == { <<p[1], p[2], m.cost[p]>> : p \in PresentPairs(m) }

\* the DiGraph: every vertex is a node, edges carry the evaluated cost
get_output_network_graph(m) ==
    [nodes |-> name_to_vertex,
     edges |-> { <<p[1], p[2], m.cost[p]>> : p \in PresentPairs(m) }]

----------------------------------------------------------------------------
(* get_output_routing_graphs                                               *)

GraphPairs(g) == { <<e[1], e[2]>> : e \in g.edges }
GraphCost(g, u, v) == (CHOOSE e \in g.edges : e[1] = u /\ e[2] = v)[3]

\* simple paths of g from s to t (nx.has_path / nx.shortest_path search g)
PathsIn(g, s, t) ==
    IF s = t THEN {<<s>>}
    ELSE LET gp == GraphPairs(g)
         IN { p \in UNION { [1..n -> g.nodes] : n \in 2..Cardinality(g.nodes) } :
                /\ p[1] = s
                /\ p[Len(p)] = t
                /\ \A i \in 1..(Len(p) - 1) : <<p[i], p[i + 1]>> \in gp
                /\ \A i, j \in 1..Len(p) : i # j => p[i] # p[j] }

has_path(g, s, t) == PathsIn(g, s, t) # {}

RECURSIVE Weight(_, _, _)
Weight(g, p, i) ==
    IF i >= Len(p) THEN 0 ELSE GraphCost(g, p[i], p[i + 1]) + Weight(g, p, i + 1)

\* nx.shortest_path(g, s, t, 'cost') returns one path of least total cost
shortest_path(g, s, t) ==
    LET ps == PathsIn(g, s, t)
    IN { p \in ps : \A q \in ps : Weight(g, p, 1) <= Weight(g, q, 1) }

\* Variant of RoutingEdgeCost that reads the input annotation of the edge.
RoutingEdgeCostFromInput(m, src, dst) ==
    IF HasCost(attr, <<src, dst>>) THEN attr[<<src, dst>>] ELSE 0

\* m.eval(self.edge_cost(self.get_vertex(src), self.get_vertex(dst)))
RoutingEdgeCost(m, src, dst) == m.cost[<<src, dst>>]

PathEdges(m, p) ==
    { <<p[i], p[i + 1], RoutingEdgeCost(m, p[i], p[i + 1])>> : i \in 1..(Len(p) - 1) }

\* The edge sets the inner loop can build for one destination network.
RECURSIVE TreeChoices(_, _, _, _)
TreeChoices(m, g, todo, dst) ==
    IF todo = {} THEN {{}}
    ELSE LET n == CHOOSE x \in todo : TRUE
             rest == TreeChoices(m, g, todo \ {n}, dst)
             mine == IF has_path(g, n, dst)
                     THEN { PathEdges(m, p) : p \in shortest_path(g, n, dst) }
                     ELSE {{}}
         IN { a \cup b : a \in mine, b \in rest }

get_output_routing_graphs ==
    /\ result = "sat"
    /\ graphs = NoGraphs
    /\ LET g_phy == get_output_network_graph(model)
           trees(d) == TreeChoices(model, g_phy, name_to_vertex, d)
       IN \E f \in [networks -> UNION { trees(d) : d \in networks }] :
            /\ \A d \in networks : f[d] \in trees(d)
            /\ graphs' = f
    /\ UNCHANGED <<node, adj, attr, initial_configs, reqs, scopes, result,
                   model, pushed, err, errAt>>

----------------------------------------------------------------------------

Next ==
    \/ \E path \in ReqPaths : add_path_req(path)
    \/ push_requirements
    \/ solver_check
    \/ get_output_routing_graphs

Spec == Init /\ [][Next]_vars

----------------------------------------------------------------------------
(* Vocabulary of the properties.                                           *)

\* A path of the Topology Graph: consecutive nodes are linked by has_edge.
ExistsInTopology(p) ==
    /\ Len(p) >= 1
    /\ \A i \in 1..(Len(p) - 1) : <<p[i], p[i + 1]>> \in adj

IsSimple(p) == \A i, j \in 1..Len(p) : i # j => p[i] # p[j]

\* Every simple path of the Topology Graph from s to t.
TopologySimplePaths(s, t) ==
    { p \in UNION { [1..n -> Names] : n \in 1..Cardinality(Names) } :
        p[1] = s /\ p[Len(p)] = t /\ IsSimple(p) /\ ExistsInTopology(p) }

First(p) == p[1]
Last(p) == p[Len(p)]

\* The requirements handed to the last push_requirements call.
PushedIdx == 1..pushed

\* Every edge of p is in the list get_output_configs returns.
InOutput(m, p) == \A i \in 1..(Len(p) - 1) : <<p[i], p[i + 1]>> \in PresentPairs(m)

OutCost(m, u, v) ==
    (CHOOSE t \in get_output_configs(m) : t[1] = u /\ t[2] = v)[3]

RECURSIVE OutSum(_, _, _)
OutSum(m, p, i) ==
    IF i >= Len(p) THEN 0 ELSE OutCost(m, p[i], p[i + 1]) + OutSum(m, p, i + 1)

\* solver.pop(): the top scope and its assertions are discarded.
SolverPop(st) == SubSeq(st, 1, Len(st) - 1)

----------------------------------------------------------------------------
(* C1: after a satisfiable solve, every registered required path costs     *)
(* strictly less, by the costs get_output_configs reports, than every      *)
(* other simple path of the Topology Graph between the same two nodes.     *)
C1_RequiredPathStrictlyCheapest ==
    result = "sat" =>
      \A i \in PushedIdx :
        \A sp \in TopologySimplePaths(First(reqs[i]), Last(reqs[i])) :
          (sp # reqs[i] /\ InOutput(model, reqs[i]) /\ InOutput(model, sp))
            => OutSum(model, reqs[i], 1) < OutSum(model, sp, 1)

(* C2: after a satisfiable solve, an edge between two routers that was     *)
(* given a fixed cost (0 included) is reported with exactly that cost by   *)
(* get_output_configs and by get_output_network_graph.                     *)
C2_FixedCostRoundTrip ==
    result = "sat" =>
      \A e \in DOMAIN attr :
        (e[1] \in node /\ e[2] \in node) =>
          /\ <<e[1], e[2], attr[e]>> \in get_output_configs(model)
          /\ <<e[1], e[2], attr[e]>> \in get_output_network_graph(model).edges

(* C3: after a satisfiable solve, an ordered pair of routers is in the     *)
(* output of get_output_configs exactly when the Topology Graph has that   *)
(* edge.                                                                   *)
C3_OutputEdgesAreTopologyEdges ==
    result = "sat" =>
      \A u \in node, v \in node :
        (\E t \in get_output_configs(model) : t[1] = u /\ t[2] = v)
          <=> (<<u, v>> \in adj)

C3_Witness ==
    /\ result = "sat"
    /\ model.edge[<<"A", "N">>]
    /\ \E u \in node, v \in node : u # v /\ <<u, v>> \notin adj
    /\ \E u \in node, v \in node : <<u, v>> \in adj

(* C4: add_path_req rejects a path of fewer than two nodes, so no such     *)
(* path is ever in the list of registered requirements.                    *)
C4_ShortPathNeverRegistered ==
    \A i \in DOMAIN reqs : Len(reqs[i]) >= 2

(* C5 (as stated): once push_requirements has run, a single pop leaves     *)
(* the solver with exactly the baseline assertions.                        *)
C5_SinglePopRestoresBaseline ==
    Len(scopes) > 1 => Assertions(SolverPop(scopes)) = Baseline

(* C5 (amended): the base scope always holds exactly the baseline          *)
(* assertions; every push_requirements call opens a scope of its own, and  *)
(* a single pop restores the baseline when one call is outstanding.        *)
C5_BaseScopeIsBaseline ==
    /\ scopes[1] = Baseline
    /\ Len(scopes) = 2 => Assertions(SolverPop(scopes)) = Baseline

C5_Witness ==
    /\ Len(scopes) = 2
    /\ scopes[2] # {}

(* C6: when a pushed requirement's first and last node have no path        *)
(* between them in the Topology Graph, push_requirements raises and no     *)
(* satisfiable result is produced.                                         *)
NoPathBetweenEnds(p) ==
    /\ Len(p) >= 1
    /\ TopologySimplePaths(First(p), Last(p)) = {}

C6_NoPathNeverSatisfiable ==
    (\E i \in PushedIdx : NoPathBetweenEnds(reqs[i])) =>
      (err # "none" /\ result # "sat")

C6_Witness ==
    /\ \E i \in PushedIdx : NoPathBetweenEnds(reqs[i])
    /\ err # "none"

(* C7: every edge of a routing tree returned by get_output_routing_graphs  *)
(* is an edge of the graph get_output_network_graph returns for the same   *)
(* model, with the same cost.                                              *)
C7_RoutingEdgesInNetworkGraph ==
    graphs # NoGraphs =>
      \A d \in networks :
        \A e \in graphs[d] : e \in get_output_network_graph(model).edges

C7_Witness ==
    /\ graphs # NoGraphs
    /\ \E d \in networks : \E e \in graphs[d] : e[3] > 0

(* C8: no edge of the Topology Graph, seen by has_edge, by adjacency or by *)
(* simple-path enumeration, has an endpoint that is not a router.          *)
C8_NoEdgeTouchesNonRouter ==
    /\ \A e \in adj : e[1] \in node /\ e[2] \in node
    /\ \A s \in node, t \in node :
         \A p \in all_simple_paths(s, t) : \A i \in DOMAIN p : p[i] \in node

(* C9 (as stated): when a pushed requirement has a consecutive pair that   *)
(* is no edge of the Topology Graph, push_requirements completes and the   *)
(* following check reports unsatisfiable.                                  *)
HasNonEdgePair(p) ==
    \E i \in 1..(Len(p) - 1) : <<p[i], p[i + 1]>> \notin adj

C9_NonEdgePathCompletesUnsat ==
    \A i \in PushedIdx :
      HasNonEdgePair(reqs[i]) =>
        (err = "none" /\ (result # "none" => result = "unsat"))

(* C9 (amended): push_requirements does not complete; it raises at that    *)
(* requirement or an earlier one, with KeyError when it is that one, and   *)
(* asserts nothing that mentions the cost of a pair that is no edge.       *)
C9_NonEdgePathRaises ==
    \A i \in PushedIdx :
      HasNonEdgePair(reqs[i]) =>
        /\ err # "none"
        /\ errAt <= i
        /\ errAt = i => err = "KeyError"
        /\ CostApps(scopes[Len(scopes)]) \subseteq adj

C9_Witness ==
    \E i \in PushedIdx :
      /\ HasNonEdgePair(reqs[i])
      /\ ~NoPathBetweenEnds(reqs[i])
      /\ errAt = i
      /\ err = "KeyError"

(* C10: two pushed requirements with the same first and last node and      *)
(* different simple paths that both exist in the Topology Graph make the   *)
(* asserted constraints unsatisfiable.                                     *)
C10_ConflictingRequirementsUnsat ==
    (/\ result # "none"
     /\ \E i \in PushedIdx, j \in PushedIdx :
          /\ reqs[i] # reqs[j]
          /\ First(reqs[i]) = First(reqs[j])
          /\ Last(reqs[i]) = Last(reqs[j])
          /\ IsSimple(reqs[i]) /\ ExistsInTopology(reqs[i])
          /\ IsSimple(reqs[j]) /\ ExistsInTopology(reqs[j]))
      => result = "unsat"

====
